---------------------------- MODULE Spec2Model ----------------------------
(***************************************************************************)
(* Model of ValidatePluginConfig (pkg/cri/config/config.go): the ordered   *)
(* migration and validation passes over a CRI PluginConfig.                *)
(*                                                                         *)
(* Strings that the code only compares (handler names, runtime types,      *)
(* sandbox modes, error and warning texts) are TLA+ strings.  Strings that *)
(* the code parses (registry endpoints, registry hosts, duration strings)  *)
(* are sequences of one-character strings, so that url.Parse and           *)
(* time.ParseDuration are computed character by character.                 *)
(* A Go pointer (to AuthConfig, to TLSConfig) is a sequence of length at   *)
(* most one: << >> is nil, <<v>> points to v.                              *)
(***************************************************************************)
EXTENDS Integers, Sequences, FiniteSets, TLC

VARIABLES c, in, pc, err, log, todo, calls, first

vars == <<c, in, pc, err, log, todo, calls, first>>

-----------------------------------------------------------------------------
(* Bounds of the model *)

\* number of ValidatePluginConfig calls made on one instance
MaxCalls == 2

\* largest number of entries of Registry.Auths on input
MaxAuths == 2

-----------------------------------------------------------------------------
(* Program constants *)

RuntimeUntrusted == "untrusted"

RuntimeDefault == "default"

ModePodSandbox == "podsandbox"

ModeShim == "shim"

RuntimeLinuxV1 == "io.containerd.runtime.v1.linux"

\* a runtime type other than plugin.RuntimeLinuxV1
RuntimeRuncV2 == "io.containerd.runc.v2"

NoError == "nil"

ErrUntrustedConflict == "conflicting definitions: configuration includes both untrusted_workload_runtime and runtimes[untrusted]"

ErrDefaultRuntimeNameEmpty == "default_runtime_name is empty"

ErrNoDefaultRuntime == "no corresponding runtime configured in containerd.runtimes for containerd default_runtime_name"

ErrSystemdCgroup == "systemd_cgroup only works for runtime io.containerd.runtime.v1.linux"

ErrNoPivot == "no_pivot only works for runtime io.containerd.runtime.v1.linux"

ErrRuntimeEngine == "runtime_engine only works for runtime io.containerd.runtime.v1.linux"

ErrRuntimeRoot == "runtime_root only works for runtime io.containerd.runtime.v1.linux"

ErrAllDevicesAllowed == "privileged_without_host_devices_all_devices_allowed requires privileged_without_host_devices to be enabled"

ErrMirrorsConfigPath == "mirrors cannot be set when config_path is provided"

ErrTLSConfigPath == "configs.tls cannot be set when config_path is provided"

ErrParseRegistryURL == "failed to parse registry url from registry.auths"

ErrStreamIdleTimeout == "invalid stream idle timeout"

ErrImagePullProgressTimeout == "invalid image pull progress timeout"

ErrDrainExecSyncIOTimeout == "invalid drain_exec_sync_io_timeout"

WarnUntrusted == "untrusted_workload_runtime is deprecated, please use untrusted runtime in runtimes instead"

WarnDefaultRuntime == "default_runtime is deprecated, please use default_runtime_name to reference the default configuration you have defined in runtimes"

WarnSystemdCgroup == "systemd_cgroup is deprecated, please use runtime options instead"

WarnRuntimeEngine == "runtime_engine is deprecated, please use runtime options instead"

WarnRuntimeRoot == "runtime_root is deprecated, please use runtime options instead"

WarnMirrors == "mirrors is deprecated, please use config_path instead"

WarnTLS == "configs.tls is deprecated, please use config_path instead"

WarnAuths == "auths is deprecated, please use configs instead"

-----------------------------------------------------------------------------
(* Go strings as character sequences *)

Letters == {"a", "d", "g", "h", "m", "n", "o", "p", "r", "s", "t", "u", "i"}

Digits == {"0", "1", "3", "5"}

\* s[i..] (1-based), the Go slice s[i-1:]
From(s, i) == SubSeq(s, i, Len(s))

\* strings.Contains(s, ch) for a one-character ch
ContainsChar(s, ch) == \E i \in 1..Len(s) : s[i] = ch

\* strings.Index(s, ch) + 1 for a one-character ch; 0 when absent
IndexChar(s, ch) ==
    IF ContainsChar(s, ch)
    THEN CHOOSE i \in 1..Len(s) : s[i] = ch /\ \A j \in 1..(i-1) : s[j] # ch
    ELSE 0

\* strings.LastIndex(s, ch) + 1 for a one-character ch; 0 when absent
LastIndexChar(s, ch) ==
    IF ContainsChar(s, ch)
    THEN CHOOSE i \in 1..Len(s) : s[i] = ch /\ \A j \in (i+1)..Len(s) : s[j] # ch
    ELSE 0

\* strings.HasPrefix(s, p)
HasPrefix(s, p) == Len(s) >= Len(p) /\ SubSeq(s, 1, Len(p)) = p

-----------------------------------------------------------------------------
(* net/url: url.Parse as used on the keys of Registry.Auths.  The          *)
(* endpoints of the model hold letters, digits and the characters . - : /  *)
(* only, so the query, fragment, userinfo, IPv6 and escape handling of     *)
(* url.Parse never applies.                                                *)

\* the first position at which the scan of getScheme stops; 0 when it runs
\* to the end of the string
SchemeStop(raw) ==
    LET stops == {i \in 1..Len(raw) :
                     /\ raw[i] \notin Letters
                     /\ (i = 1 \/ raw[i] \notin (Digits \cup {"+", "-", "."}))}
    IN  IF stops = {} THEN 0
        ELSE CHOOSE i \in stops : \A j \in stops : i <= j

\* getScheme: (scheme, rest, err)
getScheme(raw) ==
    LET i == SchemeStop(raw)
    IN  IF i = 0 \/ raw[i] # ":"
        THEN [scheme |-> << >>, rest |-> raw, ok |-> TRUE]
        ELSE IF i = 1
             THEN [scheme |-> << >>, rest |-> << >>, ok |-> FALSE]
             ELSE [scheme |-> SubSeq(raw, 1, i - 1), rest |-> From(raw, i + 1), ok |-> TRUE]

\* validOptionalPort: "" or ":" followed by digits only
validOptionalPort(port) ==
    \/ port = << >>
    \/ /\ port[1] = ":"
       /\ \A i \in 2..Len(port) : port[i] \in Digits

\* parseHost, without the bracketed IPv6 form: the host keeps its port
parseHostOk(host) ==
    LET i == LastIndexChar(host, ":")
    IN  i = 0 \/ validOptionalPort(From(host, i))

\* url.Parse: [ok, Scheme, Host]
urlParse(rawURL) ==
    LET s == getScheme(rawURL)
        rest == s.rest
        slash == IndexChar(rest, "/")
        segment == IF slash = 0 THEN rest ELSE SubSeq(rest, 1, slash - 1)
        afterSlashes == From(rest, 3)
        cut == IndexChar(afterSlashes, "/")
        authority == IF cut = 0 THEN afterSlashes ELSE SubSeq(afterSlashes, 1, cut - 1)
    IN  IF ~s.ok
        THEN [ok |-> FALSE, Scheme |-> << >>, Host |-> << >>]
        ELSE IF ~HasPrefix(rest, <<"/">>)
        THEN IF s.scheme # << >>
             THEN \* a rootless path is opaque: no host
                  [ok |-> TRUE, Scheme |-> s.scheme, Host |-> << >>]
             ELSE IF ContainsChar(segment, ":")
                  THEN \* first path segment in URL cannot contain colon
                       [ok |-> FALSE, Scheme |-> << >>, Host |-> << >>]
                  ELSE [ok |-> TRUE, Scheme |-> << >>, Host |-> << >>]
        ELSE IF HasPrefix(rest, <<"/", "/">>)
                /\ (s.scheme # << >> \/ ~HasPrefix(rest, <<"/", "/", "/">>))
        THEN IF parseHostOk(authority)
             THEN [ok |-> TRUE, Scheme |-> s.scheme, Host |-> authority]
             ELSE [ok |-> FALSE, Scheme |-> << >>, Host |-> << >>]
        ELSE [ok |-> TRUE, Scheme |-> s.scheme, Host |-> << >>]

-----------------------------------------------------------------------------
(* time.ParseDuration, reduced to whether it returns an error: the code    *)
(* discards the value.  The duration strings of the model are shorter than *)
(* any string whose value overflows 63 bits.                               *)

unitMap == {<<"n", "s">>, <<"u", "s">>, <<"m", "s">>, <<"s">>, <<"m">>, <<"h">>}

IsNumChar(ch) == ch = "." \/ ch \in Digits

\* number of leading characters of s that are digits: leadingInt
LeadingDigits(s) ==
    LET nonDigit == {i \in 1..Len(s) : s[i] \notin Digits}
    IN  IF nonDigit = {} THEN Len(s)
        ELSE (CHOOSE i \in nonDigit : \A j \in nonDigit : i <= j) - 1

\* number of leading characters of s that belong to a unit
LeadingUnit(s) ==
    LET num == {i \in 1..Len(s) : IsNumChar(s[i])}
    IN  IF num = {} THEN Len(s)
        ELSE (CHOOSE i \in num : \A j \in num : i <= j) - 1

RECURSIVE DurationGroups(_)
\* the loop over s of ParseDuration: one or more groups of
\* digits, an optional fraction, and a unit
DurationGroups(s) ==
    IF s = << >> THEN TRUE
    ELSE IF ~IsNumChar(s[1]) THEN FALSE
    ELSE LET pre == LeadingDigits(s)
             s1 == From(s, pre + 1)
             dot == s1 # << >> /\ s1[1] = "."
             s2 == IF dot THEN From(s1, 2) ELSE s1
             post == IF dot THEN LeadingDigits(s2) ELSE 0
             s3 == From(s2, post + 1)
             u == LeadingUnit(s3)
         IN  /\ (pre > 0 \/ post > 0)
             /\ u > 0
             /\ SubSeq(s3, 1, u) \in unitMap
             /\ DurationGroups(From(s3, u + 1))

\* mutant: a leading sign is not consumed
M_ParseDurationOk_NoSign(s) ==
    \/ s = <<"0">>
    \/ s # << >> /\ DurationGroups(s)

\* time.ParseDuration(s) returns a nil error
ParseDurationOk(s) ==
    LET signed == s # << >> /\ s[1] \in {"-", "+"}
        body == IF signed THEN From(s, 2) ELSE s
    IN  \/ body = <<"0">>
        \/ body # << >> /\ DurationGroups(body)

-----------------------------------------------------------------------------
(* The configuration schema: the fields ValidatePluginConfig reads or      *)
(* writes.  A Go map that may be nil carries an IsNil flag beside it.      *)

\* the zero value of Runtime
ZeroRuntime ==
    [Type |-> "", Engine |-> "", Root |-> "",
     PrivilegedWithoutHostDevices |-> FALSE,
     PrivilegedWithoutHostDevicesAllDevicesAllowed |-> FALSE,
     SandboxMode |-> ""]

\* the zero value of RegistryConfig
ZeroRegistryConfig == [Auth |-> << >>, TLS |-> << >>]

\* the zero value of Registry
ZeroRegistry ==
    [ConfigPath |-> << >>, Mirrors |-> << >>, Configs |-> << >>,
     ConfigsIsNil |-> TRUE, Auths |-> << >>]

\* the zero value of ContainerdConfig
ZeroContainerdConfig ==
    [DefaultRuntimeName |-> "", DefaultRuntime |-> ZeroRuntime,
     UntrustedWorkloadRuntime |-> ZeroRuntime, Runtimes |-> << >>,
     RuntimesIsNil |-> TRUE, NoPivot |-> FALSE]

\* the zero value of PluginConfig
ZeroPluginConfig ==
    [ContainerdConfig |-> ZeroContainerdConfig, Registry |-> ZeroRegistry,
     SystemdCgroup |-> FALSE, StreamIdleTimeout |-> << >>,
     ImagePullProgressTimeout |-> << >>, DrainExecSyncIOTimeout |-> << >>]

\* m[k] = v on a Go map
MapSet(m, k, v) == [x \in (DOMAIN m) \cup {k} |-> IF x = k THEN v ELSE m[x]]

\* m[k] on a Go map: the zero value when k is absent
MapGet(m, k, zero) == IF k \in DOMAIN m THEN m[k] ELSE zero

\* all maps with keys among keys and values among vals
Maps(keys, vals) == UNION {[K -> vals] : K \in SUBSET keys}

-----------------------------------------------------------------------------
(* Input configurations *)

Plain(t) == [ZeroRuntime EXCEPT !.Type = t]

\* a handler that breaks the device-flag rule
BadDevices(t) ==
    [Plain(t) EXCEPT !.PrivilegedWithoutHostDevicesAllDevicesAllowed = TRUE]

RuntimeTypes == {RuntimeLinuxV1, RuntimeRuncV2}

SandboxModes == {"", ModeShim, "kata"}

AllRuntimes ==
    [Type : RuntimeTypes, Engine : {"", "runc"}, Root : {"", "/run/runc"},
     PrivilegedWithoutHostDevices : BOOLEAN,
     PrivilegedWithoutHostDevicesAllDevicesAllowed : BOOLEAN,
     SandboxMode : SandboxModes]

SecondRuntimes ==
    {Plain(RuntimeRuncV2),
     [Plain(RuntimeRuncV2) EXCEPT !.Engine = "runc"],
     BadDevices(RuntimeRuncV2),
     [Plain(RuntimeLinuxV1) EXCEPT !.Root = "/run/runc", !.SandboxMode = ModeShim]}

LegacyRuntimes ==
    {ZeroRuntime, Plain(RuntimeLinuxV1), Plain(RuntimeRuncV2), BadDevices(RuntimeRuncV2)}

RuntimeNames == {"", RuntimeDefault, RuntimeUntrusted, "runc", "kata"}

\* a map as the loader leaves it: nil or allocated when it has no entry
WithRuntimes(cc, m, isNil) ==
    [cc EXCEPT !.Runtimes = m, !.RuntimesIsNil = isNil /\ m = << >>]

\* the smallest accepted configuration with no deprecated field
BaseContainerdConfig ==
    [WithRuntimes(ZeroContainerdConfig, [k \in {"runc"} |-> Plain(RuntimeRuncV2)], FALSE)
        EXCEPT !.DefaultRuntimeName = "runc"]

BaseConfig == [ZeroPluginConfig EXCEPT !.ContainerdConfig = BaseContainerdConfig]

\* inputs that vary the handler selection and the legacy runtime fields
SelectionInputs ==
    {[ZeroPluginConfig EXCEPT
        !.ContainerdConfig =
            [WithRuntimes(ZeroContainerdConfig, m, isNil) EXCEPT
                !.DefaultRuntimeName = n, !.DefaultRuntime = d,
                !.UntrustedWorkloadRuntime = u, !.NoPivot = np],
        !.SystemdCgroup = sc] :
        m \in {x \in Maps({RuntimeUntrusted, RuntimeDefault, "runc"},
                          {Plain(RuntimeLinuxV1), Plain(RuntimeRuncV2)}) :
                 \A k \in (DOMAIN x) \ {"runc"} : x[k].Type = RuntimeRuncV2},
        isNil \in BOOLEAN, n \in RuntimeNames, d \in LegacyRuntimes,
        u \in LegacyRuntimes, np \in BOOLEAN, sc \in BOOLEAN}

\* inputs that vary the fields of the handlers
HandlerInputs ==
    {[BaseConfig EXCEPT !.ContainerdConfig.Runtimes = m] :
        m \in [{"runc"} -> AllRuntimes] \cup
              {[k \in {"runc", "kata"} |-> IF k = "runc" THEN a ELSE b] :
                  a \in AllRuntimes, b \in SecondRuntimes}}
    \cup
    {[ZeroPluginConfig EXCEPT
        !.ContainerdConfig.DefaultRuntime = d,
        !.ContainerdConfig.RuntimesIsNil = isNil] :
        d \in AllRuntimes, isNil \in BOOLEAN}
    \cup
    {[BaseConfig EXCEPT !.ContainerdConfig.UntrustedWorkloadRuntime = u] :
        u \in AllRuntimes}

AuthUser == [Username |-> "u", Password |-> "p", Auth |-> "", IdentityToken |-> ""]

AuthToken == [Username |-> "", Password |-> "", Auth |-> "dTpw", IdentityToken |-> "t"]

TLSInsecure ==
    [InsecureSkipVerify |-> TRUE, CAFile |-> "", CertFile |-> "", KeyFile |-> ""]

HostH == <<"h">>

HostG == <<"g">>

Endpoints ==
    {<<"h", "t", "t", "p", "s", ":", "/", "/", "h">>,
     <<"h", "t", "t", "p", ":", "/", "/", "h">>,
     <<"h">>,
     <<"h", ":", "5">>,
     <<"1", ":", "5">>,
     <<"h", "t", "t", "p", "s", ":", "/", "/", "g", ":", "5">>}

ConfigPaths == {<< >>, <<"/", "e", "t", "c">>}

MirrorInputs == {<< >>, [ns \in {"docker.io"} |-> [Endpoints |-> <<"https://m">>]]}

ConfigInputs ==
    {x \in Maps({HostH, HostG},
                {[Auth |-> << >>, TLS |-> <<TLSInsecure>>],
                 [Auth |-> <<AuthToken>>, TLS |-> << >>],
                 [Auth |-> <<AuthToken>>, TLS |-> <<TLSInsecure>>]}) :
        HostG \in DOMAIN x => x[HostG].Auth = << >>}

AuthInputs ==
    {x \in Maps(Endpoints, {AuthUser, AuthToken}) : Cardinality(DOMAIN x) <= MaxAuths}

WithConfigs(reg, m, isNil) ==
    [reg EXCEPT !.Configs = m, !.ConfigsIsNil = isNil /\ m = << >>]

RegistryOf(p, cf, isNil, mi, au) ==
    [WithConfigs(ZeroRegistry, cf, isNil) EXCEPT
        !.ConfigPath = p, !.Mirrors = mi, !.Auths = au]

\* inputs that vary the registry access settings
RegistryInputs ==
    {[BaseConfig EXCEPT !.Registry = RegistryOf(p, cf, isNil, mi, << >>)] :
        p \in ConfigPaths, cf \in ConfigInputs, isNil \in BOOLEAN,
        mi \in MirrorInputs}
    \cup
    {[BaseConfig EXCEPT !.Registry = RegistryOf(p, cf, isNil, << >>, au)] :
        p \in ConfigPaths, cf \in ConfigInputs, isNil \in BOOLEAN,
        au \in AuthInputs}

Durations ==
    {<< >>, <<"3", "0", "s">>, <<"-", "3", "0", "s">>,
     <<"n", "o", "t", "-", "a", "-", "d", "u", "r", "a", "t", "i", "o", "n">>,
     <<"1", "h", "3", "0", "m">>}

\* inputs that vary the three timeout strings
TimeoutInputs ==
    {[BaseConfig EXCEPT
        !.StreamIdleTimeout = s, !.ImagePullProgressTimeout = i,
        !.DrainExecSyncIOTimeout = d] :
        s \in Durations, i \in Durations, d \in Durations}

\* inputs that set deprecated fields of several passes at once
MixedInputs ==
    {[BaseConfig EXCEPT
        !.ContainerdConfig.DefaultRuntime = d,
        !.ContainerdConfig.UntrustedWorkloadRuntime = u,
        !.Registry = RegistryOf(p, cf, TRUE, mi, au),
        !.StreamIdleTimeout = s, !.DrainExecSyncIOTimeout = dr] :
        d \in {ZeroRuntime, Plain(RuntimeRuncV2), BadDevices(RuntimeRuncV2)},
        u \in {ZeroRuntime, Plain(RuntimeRuncV2)},
        p \in ConfigPaths, mi \in MirrorInputs,
        cf \in {<< >>, [k \in {HostH} |-> [Auth |-> << >>, TLS |-> <<TLSInsecure>>]]},
        au \in {<< >>, [e \in {<<"h", "t", "t", "p", "s", ":", "/", "/", "h">>} |-> AuthUser]},
        s \in {<< >>, <<"3", "0">>}, dr \in {<< >>, <<"3", "0">>}}

InputConfigs ==
    SelectionInputs \cup HandlerInputs \cup RegistryInputs \cup TimeoutInputs
        \cup MixedInputs

-----------------------------------------------------------------------------
(* ValidatePluginConfig, pass by pass.  pc is the position in the function, *)
(* err the error it returns (NoError while it runs and on success), log the *)
(* warnings written by the current call, todo the keys a range loop has     *)
(* still to visit, in the configuration as it was when the call began.      *)
(* first is << >>, or holds the outcome of an earlier call on a             *)
(* configuration equal to in.                                               *)

Init ==
    /\ c \in InputConfigs
    /\ in = c
    /\ pc = "start"
    /\ err = NoError
    /\ log = << >>
    /\ todo = {}
    /\ calls = 1
    /\ first = << >>

\* return e
Fail(e) ==
    /\ pc' = "done"
    /\ err' = e

\* fall through to the pass at position p
Goto(p) ==
    /\ pc' = p
    /\ err' = err

\* mutant: the map is made anew whether or not it is nil
M_InitRuntimes_Always ==
    /\ pc = "start"
    /\ c' = [c EXCEPT !.ContainerdConfig.Runtimes = << >>,
                      !.ContainerdConfig.RuntimesIsNil = FALSE]
    /\ Goto("untrusted")
    /\ UNCHANGED <<in, first, log, todo, calls>>

\* if c.ContainerdConfig.Runtimes == nil { ... = make(map[string]Runtime) }
InitRuntimes ==
    /\ pc = "start"
    /\ c' = [c EXCEPT !.ContainerdConfig.RuntimesIsNil = FALSE]
    /\ Goto("untrusted")
    /\ UNCHANGED <<in, first, log, todo, calls>>

\* mutant: the conflict test is dropped, the legacy handler always wins
M_UntrustedConflict_Never(cc) == FALSE

\* the untrusted_workload_runtime conflict test
UntrustedConflict(cc) == RuntimeUntrusted \in DOMAIN cc.Runtimes

\* Runtimes[RuntimeUntrusted] = UntrustedWorkloadRuntime
WithUntrusted(cc) ==
    [cc EXCEPT !.Runtimes = MapSet(@, RuntimeUntrusted, cc.UntrustedWorkloadRuntime)]

\* mutant: the handler is written before the conflict is tested
M_MigrateUntrusted_WriteFirst ==
    /\ pc = "untrusted"
    /\ UNCHANGED <<in, first, todo, calls>>
    /\ LET cc == c.ContainerdConfig
       IN  \/ /\ cc.UntrustedWorkloadRuntime.Type = ""
              /\ Goto("default")
              /\ UNCHANGED <<c, log>>
           \/ /\ cc.UntrustedWorkloadRuntime.Type # ""
              /\ log' = Append(log, WarnUntrusted)
              /\ c' = [c EXCEPT !.ContainerdConfig = WithUntrusted(cc)]
              /\ IF UntrustedConflict(cc)
                 THEN Fail(ErrUntrustedConflict)
                 ELSE Goto("default")

\* mutant: the legacy handler is migrated whether or not its type is set
M_MigrateUntrusted_NoGuard ==
    /\ pc = "untrusted"
    /\ UNCHANGED <<in, first, todo, calls>>
    /\ log' = Append(log, WarnUntrusted)
    /\ LET cc == c.ContainerdConfig
       IN  \/ /\ UntrustedConflict(cc)
              /\ Fail(ErrUntrustedConflict)
              /\ UNCHANGED c
           \/ /\ ~UntrustedConflict(cc)
              /\ c' = [c EXCEPT !.ContainerdConfig = WithUntrusted(cc)]
              /\ Goto("default")

\* mutant: the legacy default runtime is migrated before the conflict is
\* tested
M_MigrateUntrusted_DefaultFirst ==
    /\ pc = "untrusted"
    /\ UNCHANGED <<in, first, todo, calls>>
    /\ LET cc == c.ContainerdConfig
           migrated == IF cc.DefaultRuntime.Type # ""
                       THEN [cc EXCEPT !.DefaultRuntimeName = RuntimeDefault,
                                       !.Runtimes = MapSet(@, RuntimeDefault,
                                                           cc.DefaultRuntime)]
                       ELSE cc
       IN  \/ /\ cc.UntrustedWorkloadRuntime.Type = ""
              /\ Goto("default")
              /\ UNCHANGED <<c, log>>
           \/ /\ cc.UntrustedWorkloadRuntime.Type # ""
              /\ log' = Append(log, WarnUntrusted)
              /\ UntrustedConflict(cc)
              /\ Fail(ErrUntrustedConflict)
              /\ c' = [c EXCEPT !.ContainerdConfig = migrated]
           \/ /\ cc.UntrustedWorkloadRuntime.Type # ""
              /\ log' = Append(log, WarnUntrusted)
              /\ ~UntrustedConflict(cc)
              /\ c' = [c EXCEPT !.ContainerdConfig = WithUntrusted(cc)]
              /\ Goto("default")

\* Validation for deprecated untrusted_workload_runtime
MigrateUntrustedWorkloadRuntime ==
    /\ pc = "untrusted"
    /\ UNCHANGED <<in, first, todo, calls>>
    /\ LET cc == c.ContainerdConfig
       IN  \/ /\ cc.UntrustedWorkloadRuntime.Type = ""
              /\ Goto("default")
              /\ UNCHANGED <<c, log>>
           \/ /\ cc.UntrustedWorkloadRuntime.Type # ""
              /\ log' = Append(log, WarnUntrusted)
              /\ UntrustedConflict(cc)
              /\ Fail(ErrUntrustedConflict)
              /\ UNCHANGED c
           \/ /\ cc.UntrustedWorkloadRuntime.Type # ""
              /\ log' = Append(log, WarnUntrusted)
              /\ ~UntrustedConflict(cc)
              /\ c' = [c EXCEPT !.ContainerdConfig = WithUntrusted(cc)]
              /\ Goto("default")

\* mutant: the legacy field is cleared once it is migrated
M_WithDefaultRuntime_ClearLegacy(cc) ==
    [cc EXCEPT !.DefaultRuntimeName = RuntimeDefault,
               !.Runtimes = MapSet(@, RuntimeDefault, cc.DefaultRuntime),
               !.DefaultRuntime = ZeroRuntime]

\* mutant: a handler already under the key default is kept
M_WithDefaultRuntime_KeepExisting(cc) ==
    [cc EXCEPT !.DefaultRuntimeName = RuntimeDefault,
               !.Runtimes = IF RuntimeDefault \in DOMAIN @ THEN @
                            ELSE MapSet(@, RuntimeDefault, cc.DefaultRuntime)]

\* DefaultRuntimeName = RuntimeDefault; Runtimes[RuntimeDefault] = DefaultRuntime
WithDefaultRuntime(cc) ==
    [cc EXCEPT !.DefaultRuntimeName = RuntimeDefault,
               !.Runtimes = MapSet(@, RuntimeDefault, cc.DefaultRuntime)]

\* Validation for deprecated default_runtime field
MigrateDefaultRuntime ==
    /\ pc = "default"
    /\ UNCHANGED <<in, first, todo, calls>>
    /\ Goto("defaultName")
    /\ LET cc == c.ContainerdConfig
       IN  \/ /\ cc.DefaultRuntime.Type = ""
              /\ UNCHANGED <<c, log>>
           \/ /\ cc.DefaultRuntime.Type # ""
              /\ log' = Append(log, WarnDefaultRuntime)
              /\ c' = [c EXCEPT !.ContainerdConfig = WithDefaultRuntime(cc)]

\* mutant: the name is not looked up in Runtimes
M_DefaultRuntimeNameError_NoLookup(cc) ==
    IF cc.DefaultRuntimeName = "" THEN ErrDefaultRuntimeNameEmpty ELSE NoError

\* mutant: the empty name is looked up like any other name
M_DefaultRuntimeNameError_NoEmptyCheck(cc) ==
    IF cc.DefaultRuntimeName \notin DOMAIN cc.Runtimes THEN ErrNoDefaultRuntime
    ELSE NoError

\* the error of the default_runtime_name validation, NoError when it passes
DefaultRuntimeNameError(cc) ==
    IF cc.DefaultRuntimeName = "" THEN ErrDefaultRuntimeNameEmpty
    ELSE IF cc.DefaultRuntimeName \notin DOMAIN cc.Runtimes THEN ErrNoDefaultRuntime
    ELSE NoError

\* Validation for default_runtime_name
ValidateDefaultRuntimeName ==
    /\ pc = "defaultName"
    /\ UNCHANGED <<c, in, first, log, todo, calls>>
    /\ LET e == DefaultRuntimeNameError(c.ContainerdConfig)
       IN  \/ /\ e # NoError
              /\ Fail(e)
           \/ /\ e = NoError
              /\ Goto("options")

\* mutant: the flags are checked against the legacy default runtime
M_DefaultRuntimeType_Legacy(cc) == cc.DefaultRuntime.Type

\* Runtimes[DefaultRuntimeName].Type
DefaultRuntimeType(cc) ==
    MapGet(cc.Runtimes, cc.DefaultRuntimeName, ZeroRuntime).Type

\* mutant: the systemd_cgroup warning is written before the type is checked
M_ValidateRuntimeOptions_WarnFirst ==
    /\ pc = "options"
    /\ UNCHANGED <<c, in, first, calls>>
    /\ LET cc == c.ContainerdConfig
           linux == DefaultRuntimeType(cc) = RuntimeLinuxV1
           warned == IF c.SystemdCgroup THEN Append(log, WarnSystemdCgroup) ELSE log
       IN  /\ log' = warned
           /\ \/ /\ c.SystemdCgroup /\ ~linux
                 /\ Fail(ErrSystemdCgroup)
                 /\ UNCHANGED todo
              \/ /\ c.SystemdCgroup => linux
                 /\ cc.NoPivot /\ ~linux
                 /\ Fail(ErrNoPivot)
                 /\ UNCHANGED todo
              \/ /\ c.SystemdCgroup => linux
                 /\ cc.NoPivot => linux
                 /\ todo' = DOMAIN cc.Runtimes
                 /\ Goto(IF DOMAIN cc.Runtimes = {} THEN "registry" ELSE "runtimes")

\* Validation for deprecated runtime options: systemd_cgroup and no_pivot
ValidateRuntimeOptions ==
    /\ pc = "options"
    /\ UNCHANGED <<c, in, first, calls>>
    /\ LET cc == c.ContainerdConfig
           linux == DefaultRuntimeType(cc) = RuntimeLinuxV1
           warned == IF c.SystemdCgroup THEN Append(log, WarnSystemdCgroup) ELSE log
       IN  \/ /\ c.SystemdCgroup /\ ~linux
              /\ Fail(ErrSystemdCgroup)
              /\ UNCHANGED <<log, todo>>
           \/ /\ c.SystemdCgroup => linux
              /\ cc.NoPivot /\ ~linux
              /\ Fail(ErrNoPivot)
              /\ log' = warned
              /\ UNCHANGED todo
           \/ /\ c.SystemdCgroup => linux
              /\ cc.NoPivot => linux
              /\ log' = warned
              /\ todo' = DOMAIN cc.Runtimes
              /\ Goto(IF DOMAIN cc.Runtimes = {} THEN "registry" ELSE "runtimes")

\* mutant: the device-flag rule is not checked
M_RuntimeError_NoDevices(r) ==
    IF r.Engine # "" /\ r.Type # RuntimeLinuxV1 THEN ErrRuntimeEngine
    ELSE IF r.Root # "" /\ r.Type # RuntimeLinuxV1 THEN ErrRuntimeRoot
    ELSE NoError

\* mutant: the root is not checked against the type
M_RuntimeError_NoRoot(r) ==
    IF r.Engine # "" /\ r.Type # RuntimeLinuxV1 THEN ErrRuntimeEngine
    ELSE IF ~r.PrivilegedWithoutHostDevices
            /\ r.PrivilegedWithoutHostDevicesAllDevicesAllowed
    THEN ErrAllDevicesAllowed
    ELSE NoError

\* mutant: the device-flag rule is checked before the engine and the root
M_RuntimeError_DevicesFirst(r) ==
    IF ~r.PrivilegedWithoutHostDevices
       /\ r.PrivilegedWithoutHostDevicesAllDevicesAllowed
    THEN ErrAllDevicesAllowed
    ELSE IF r.Engine # "" /\ r.Type # RuntimeLinuxV1 THEN ErrRuntimeEngine
    ELSE IF r.Root # "" /\ r.Type # RuntimeLinuxV1 THEN ErrRuntimeRoot
    ELSE NoError

\* the error one iteration of the loop over Runtimes returns, NoError when
\* the iteration runs to its end
RuntimeError(r) ==
    IF r.Engine # "" /\ r.Type # RuntimeLinuxV1 THEN ErrRuntimeEngine
    ELSE IF r.Root # "" /\ r.Type # RuntimeLinuxV1 THEN ErrRuntimeRoot
    ELSE IF ~r.PrivilegedWithoutHostDevices
            /\ r.PrivilegedWithoutHostDevicesAllDevicesAllowed
    THEN ErrAllDevicesAllowed
    ELSE NoError

\* the warnings one iteration of the loop over Runtimes writes
RuntimeWarnings(r) ==
    LET e == RuntimeError(r)
    IN  (IF r.Engine # "" /\ e # ErrRuntimeEngine THEN <<WarnRuntimeEngine>> ELSE << >>)
        \o (IF r.Root # "" /\ e \notin {ErrRuntimeEngine, ErrRuntimeRoot}
            THEN <<WarnRuntimeRoot>> ELSE << >>)

\* mutant: the mode is set whether or not it is empty
M_WithSandboxMode_Always(r) == [r EXCEPT !.SandboxMode = ModePodSandbox]

\* If empty, use default podSandbox mode
WithSandboxMode(r) ==
    IF r.SandboxMode = "" THEN [r EXCEPT !.SandboxMode = ModePodSandbox] ELSE r

\* mutant: the loop is left after the first handler that breaks no rule
M_ValidateRuntime_FirstOnly ==
    /\ pc = "runtimes"
    /\ UNCHANGED <<in, first, calls>>
    /\ \E k \in todo :
          LET r == c.ContainerdConfig.Runtimes[k]
          IN  /\ log' = log \o RuntimeWarnings(r)
              /\ \/ /\ RuntimeError(r) # NoError
                    /\ Fail(RuntimeError(r))
                    /\ UNCHANGED <<c, todo>>
                 \/ /\ RuntimeError(r) = NoError
                    /\ c' = [c EXCEPT !.ContainerdConfig.Runtimes[k] = WithSandboxMode(r)]
                    /\ todo' = todo \ {k}
                    /\ Goto("registry")

\* one iteration of: for k, r := range c.ContainerdConfig.Runtimes
ValidateRuntime ==
    /\ pc = "runtimes"
    /\ UNCHANGED <<in, first, calls>>
    /\ \E k \in todo :
          LET r == c.ContainerdConfig.Runtimes[k]
          IN  /\ log' = log \o RuntimeWarnings(r)
              /\ \/ /\ RuntimeError(r) # NoError
                    /\ Fail(RuntimeError(r))
                    /\ UNCHANGED <<c, todo>>
                 \/ /\ RuntimeError(r) = NoError
                    /\ c' = [c EXCEPT !.ContainerdConfig.Runtimes[k] = WithSandboxMode(r)]
                    /\ todo' = todo \ {k}
                    /\ Goto(IF todo' = {} THEN "registry" ELSE "runtimes")

\* useConfigPath := c.Registry.ConfigPath != ""
useConfigPath(reg) == reg.ConfigPath # << >>

\* the loop that sets hasDeprecatedTLS
hasDeprecatedTLS(reg) == \E k \in DOMAIN reg.Configs : reg.Configs[k].TLS # << >>

\* mutant: mirrors are rejected whether or not config_path is set
M_RegistryError_MirrorsAlways(reg) ==
    IF DOMAIN reg.Mirrors # {} THEN ErrMirrorsConfigPath
    ELSE IF hasDeprecatedTLS(reg) /\ useConfigPath(reg) THEN ErrTLSConfigPath
    ELSE NoError

\* mutant: configs.tls is not checked against config_path
M_RegistryError_NoTLS(reg) ==
    IF DOMAIN reg.Mirrors # {} /\ useConfigPath(reg) THEN ErrMirrorsConfigPath
    ELSE NoError

\* mutant: configs.tls is rejected whether or not config_path is set
M_RegistryError_TLSAlways(reg) ==
    IF DOMAIN reg.Mirrors # {} /\ useConfigPath(reg) THEN ErrMirrorsConfigPath
    ELSE IF hasDeprecatedTLS(reg) THEN ErrTLSConfigPath
    ELSE NoError

\* the error of the mirrors and configs.tls checks, NoError when they pass
RegistryError(reg) ==
    IF DOMAIN reg.Mirrors # {} /\ useConfigPath(reg) THEN ErrMirrorsConfigPath
    ELSE IF hasDeprecatedTLS(reg) /\ useConfigPath(reg) THEN ErrTLSConfigPath
    ELSE NoError

\* the warnings of the mirrors and configs.tls checks
RegistryWarnings(reg) ==
    LET e == RegistryError(reg)
    IN  (IF DOMAIN reg.Mirrors # {} /\ e # ErrMirrorsConfigPath
         THEN <<WarnMirrors>> ELSE << >>)
        \o (IF hasDeprecatedTLS(reg) /\ e = NoError THEN <<WarnTLS>> ELSE << >>)

\* mutant: the auths are not migrated when config_path is set
M_ValidateRegistry_SkipAuthsOnConfigPath ==
    /\ pc = "registry"
    /\ UNCHANGED <<in, first, calls>>
    /\ log' = log \o RegistryWarnings(c.Registry)
    /\ LET reg == c.Registry
       IN  \/ /\ RegistryError(reg) # NoError
              /\ Fail(RegistryError(reg))
              /\ UNCHANGED <<c, todo>>
           \/ /\ RegistryError(reg) = NoError
              /\ DOMAIN reg.Auths = {} \/ useConfigPath(reg)
              /\ Goto("timeouts")
              /\ UNCHANGED <<c, todo>>
           \/ /\ RegistryError(reg) = NoError
              /\ DOMAIN reg.Auths # {} /\ ~useConfigPath(reg)
              /\ c' = [c EXCEPT !.Registry.ConfigsIsNil = FALSE]
              /\ todo' = DOMAIN reg.Auths
              /\ Goto("auths")

\* the mirrors and configs.tls checks, and the entry of the auths migration
ValidateRegistry ==
    /\ pc = "registry"
    /\ UNCHANGED <<in, first, calls>>
    /\ log' = log \o RegistryWarnings(c.Registry)
    /\ LET reg == c.Registry
       IN  \/ /\ RegistryError(reg) # NoError
              /\ Fail(RegistryError(reg))
              /\ UNCHANGED <<c, todo>>
           \/ /\ RegistryError(reg) = NoError
              /\ DOMAIN reg.Auths = {}
              /\ Goto("timeouts")
              /\ UNCHANGED <<c, todo>>
           \/ /\ RegistryError(reg) = NoError
              /\ DOMAIN reg.Auths # {}
              /\ c' = [c EXCEPT !.Registry.ConfigsIsNil = FALSE]
              /\ todo' = DOMAIN reg.Auths
              /\ Goto("auths")

\* mutant: the scheme is kept in the key
M_AuthKey_KeepScheme(endpoint) == endpoint

\* the key of Registry.Configs an endpoint of Registry.Auths migrates to
AuthKey(endpoint) ==
    LET u == urlParse(endpoint)
    IN  IF u.Scheme # << >> THEN u.Host ELSE endpoint

\* mutant: the entry is built anew instead of read from Configs
M_WithAuth_Fresh(configs, key, auth) ==
    MapSet(configs, key, [ZeroRegistryConfig EXCEPT !.Auth = <<auth>>])

\* config := Configs[key]; config.Auth = &auth; Configs[key] = config
WithAuth(configs, key, auth) ==
    MapSet(configs, key,
           [MapGet(configs, key, ZeroRegistryConfig) EXCEPT !.Auth = <<auth>>])

\* mutant: the warning is written in the loop, once for each entry
M_MigrateAuth_WarnEach ==
    /\ pc = "auths"
    /\ UNCHANGED <<in, first, calls>>
    /\ \E endpoint \in todo :
          \/ /\ ~urlParse(endpoint).ok
             /\ Fail(ErrParseRegistryURL)
             /\ UNCHANGED <<c, log, todo>>
          \/ /\ urlParse(endpoint).ok
             /\ c' = [c EXCEPT !.Registry.Configs =
                         WithAuth(@, AuthKey(endpoint), c.Registry.Auths[endpoint])]
             /\ todo' = todo \ {endpoint}
             /\ log' = Append(log, WarnAuths)
             /\ Goto(IF todo' = {} THEN "timeouts" ELSE "auths")

\* one iteration of: for endpoint, auth := range c.Registry.Auths
MigrateAuth ==
    /\ pc = "auths"
    /\ UNCHANGED <<in, first, calls>>
    /\ \E endpoint \in todo :
          \/ /\ ~urlParse(endpoint).ok
             /\ Fail(ErrParseRegistryURL)
             /\ UNCHANGED <<c, log, todo>>
          \/ /\ urlParse(endpoint).ok
             /\ c' = [c EXCEPT !.Registry.Configs =
                         WithAuth(@, AuthKey(endpoint), c.Registry.Auths[endpoint])]
             /\ todo' = todo \ {endpoint}
             /\ log' = IF todo' = {} THEN Append(log, WarnAuths) ELSE log
             /\ Goto(IF todo' = {} THEN "timeouts" ELSE "auths")

\* mutant: the empty string is parsed like any other
M_TimeoutError_NoEmptyCheck(cfg) ==
    IF ~ParseDurationOk(cfg.StreamIdleTimeout) THEN ErrStreamIdleTimeout
    ELSE IF ~ParseDurationOk(cfg.ImagePullProgressTimeout)
    THEN ErrImagePullProgressTimeout
    ELSE IF ~ParseDurationOk(cfg.DrainExecSyncIOTimeout)
    THEN ErrDrainExecSyncIOTimeout
    ELSE NoError

\* the error of the three timeout validations, NoError when they pass
TimeoutError(cfg) ==
    IF cfg.StreamIdleTimeout # << >> /\ ~ParseDurationOk(cfg.StreamIdleTimeout)
    THEN ErrStreamIdleTimeout
    ELSE IF cfg.ImagePullProgressTimeout # << >>
            /\ ~ParseDurationOk(cfg.ImagePullProgressTimeout)
    THEN ErrImagePullProgressTimeout
    ELSE IF cfg.DrainExecSyncIOTimeout # << >>
            /\ ~ParseDurationOk(cfg.DrainExecSyncIOTimeout)
    THEN ErrDrainExecSyncIOTimeout
    ELSE NoError

\* mutant: a call that fails in the timeout validations restores the
\* configuration it was given
M_ValidateTimeouts_Rollback ==
    /\ pc = "timeouts"
    /\ UNCHANGED <<in, first, log, todo, calls>>
    /\ Fail(TimeoutError(c))
    /\ c' = IF TimeoutError(c) # NoError THEN in ELSE c

\* Validation for stream_idle_timeout, image_pull_progress_timeout and
\* drain_exec_sync_io_timeout; return nil
ValidateTimeouts ==
    /\ pc = "timeouts"
    /\ UNCHANGED <<c, in, first, log, todo, calls>>
    /\ Fail(TimeoutError(c))

\* the caller validates an accepted instance once more
Revalidate ==
    /\ pc = "done"
    /\ err = NoError
    /\ calls < MaxCalls
    /\ pc' = "start"
    /\ in' = c
    /\ log' = << >>
    /\ calls' = calls + 1
    /\ UNCHANGED <<c, err, todo, first>>

\* the caller validates a configuration equal to the one the call that has
\* returned was given
Rerun ==
    /\ pc = "done"
    /\ calls = 1
    /\ first = << >>
    /\ first' = <<[c |-> c, err |-> err]>>
    /\ c' = in
    /\ pc' = "start"
    /\ err' = NoError
    /\ log' = << >>
    /\ todo' = {}
    /\ UNCHANGED <<in, calls>>

Next ==
    \/ InitRuntimes
    \/ MigrateUntrustedWorkloadRuntime
    \/ MigrateDefaultRuntime
    \/ ValidateDefaultRuntimeName
    \/ ValidateRuntimeOptions
    \/ ValidateRuntime
    \/ ValidateRegistry
    \/ MigrateAuth
    \/ ValidateTimeouts
    \/ Revalidate
    \/ Rerun

Spec == Init /\ [][Next]_vars

-----------------------------------------------------------------------------
(* Properties *)

\* the current call has returned
Returned == pc = "done"

\* the current call has returned nil
Accepted == Returned /\ err = NoError

DeviceFlagsOk(r) ==
    r.PrivilegedWithoutHostDevicesAllDevicesAllowed => r.PrivilegedWithoutHostDevices

\* C1: after a successful validation DefaultRuntimeName is non-empty and
\* Runtimes has a handler under the key DefaultRuntimeName.
C1_DefaultRuntimeConfigured ==
    Accepted =>
        /\ c.ContainerdConfig.DefaultRuntimeName # ""
        /\ c.ContainerdConfig.DefaultRuntimeName \in DOMAIN c.ContainerdConfig.Runtimes

\* a call is accepted whose input named no default handler: the name comes
\* from the legacy default_runtime migration
C1_Witness ==
    /\ Accepted
    /\ in.ContainerdConfig.DefaultRuntimeName = ""
    /\ RuntimeDefault \notin DOMAIN in.ContainerdConfig.Runtimes

\* C2: after a successful validation every handler of Runtimes satisfies
\* AllDevicesAllowed => WithoutHostDevices, and no accepted input carried a
\* handler that breaks the rule and is in the registry after migration: not
\* the legacy untrusted or default runtime when its type is set, and not a
\* handler of the input registry unless the legacy default overwrote it.
C2_DeviceFlags ==
    Accepted =>
        LET cc == in.ContainerdConfig
        IN  /\ \A k \in DOMAIN c.ContainerdConfig.Runtimes :
                  DeviceFlagsOk(c.ContainerdConfig.Runtimes[k])
            /\ cc.UntrustedWorkloadRuntime.Type # "" =>
                  DeviceFlagsOk(cc.UntrustedWorkloadRuntime)
            /\ cc.DefaultRuntime.Type # "" => DeviceFlagsOk(cc.DefaultRuntime)
            /\ \A k \in DOMAIN cc.Runtimes :
                  (k # RuntimeDefault \/ cc.DefaultRuntime.Type = "") =>
                      DeviceFlagsOk(cc.Runtimes[k])

\* a call is accepted with a handler, inserted by the untrusted migration,
\* that has both flags set
C2_Witness ==
    /\ Accepted
    /\ RuntimeUntrusted \notin DOMAIN in.ContainerdConfig.Runtimes
    /\ RuntimeUntrusted \in DOMAIN c.ContainerdConfig.Runtimes
    /\ c.ContainerdConfig.Runtimes[RuntimeUntrusted].PrivilegedWithoutHostDevicesAllDevicesAllowed
    /\ c.ContainerdConfig.Runtimes[RuntimeUntrusted].PrivilegedWithoutHostDevices

\* the input of the current call sets the legacy untrusted runtime and has
\* a handler under the key untrusted
UntrustedConflictInput ==
    /\ in.ContainerdConfig.UntrustedWorkloadRuntime.Type # ""
    /\ RuntimeUntrusted \in DOMAIN in.ContainerdConfig.Runtimes

\* C3: on an input with a non-empty legacy untrusted type and a handler
\* under untrusted, the call goes no further than the untrusted pass, returns
\* the conflicting-definitions error, and leaves Runtimes as it was on entry.
C3_UntrustedConflict ==
    UntrustedConflictInput =>
        /\ pc \in {"start", "untrusted", "done"}
        /\ c.ContainerdConfig.Runtimes = in.ContainerdConfig.Runtimes
        /\ Returned => err = ErrUntrustedConflict

\* a first call returns the conflict error
C3_Witness ==
    /\ Returned
    /\ calls = 1
    /\ UntrustedConflictInput
    /\ err = ErrUntrustedConflict

\* the warnings the current call has written
Warned == {log[i] : i \in 1..Len(log)}

\* the endpoints of the input's Auths that migrate to the key k
EndpointsOf(k) == {e \in DOMAIN in.Registry.Auths : AuthKey(e) = k}

\* C4 as stated: a second call on an accepted instance succeeds, changes
\* nothing and writes no warning for the legacy untrusted runtime, the legacy
\* default runtime or the legacy auths.
C4_Idempotent ==
    (Returned /\ calls > 1) =>
        /\ err = NoError
        /\ c = in
        /\ Warned \cap {WarnUntrusted, WarnDefaultRuntime, WarnAuths} = {}

\* C4 as amended: a second call on an accepted instance returns the
\* conflicting-definitions error, changing nothing, when the legacy untrusted
\* type is set; otherwise it succeeds and leaves the instance as it was,
\* except that Configs[k].Auth may change for a key k that several endpoints
\* of Auths migrate to; the warnings of the legacy fields are written again,
\* because the legacy fields are never cleared.
C4_SecondCall ==
    (Returned /\ calls > 1) =>
        LET legacyUntrusted == in.ContainerdConfig.UntrustedWorkloadRuntime.Type # ""
        IN  /\ (WarnUntrusted \in Warned) = legacyUntrusted
            /\ legacyUntrusted => err = ErrUntrustedConflict /\ c = in
            /\ ~legacyUntrusted =>
                  /\ err = NoError
                  /\ [c EXCEPT !.Registry.Configs = << >>]
                        = [in EXCEPT !.Registry.Configs = << >>]
                  /\ DOMAIN c.Registry.Configs = DOMAIN in.Registry.Configs
                  /\ \A k \in DOMAIN c.Registry.Configs :
                        /\ c.Registry.Configs[k].TLS = in.Registry.Configs[k].TLS
                        /\ \/ c.Registry.Configs[k].Auth = in.Registry.Configs[k].Auth
                           \/ Cardinality(EndpointsOf(k)) > 1
                  /\ (WarnDefaultRuntime \in Warned)
                        = (in.ContainerdConfig.DefaultRuntime.Type # "")
                  /\ (WarnAuths \in Warned) = (DOMAIN in.Registry.Auths # {})

\* a second call succeeds on an instance with a legacy default runtime and
\* legacy auths, and writes both warnings again
C4_Witness ==
    /\ Accepted
    /\ calls = 2
    /\ in.ContainerdConfig.DefaultRuntime.Type # ""
    /\ DOMAIN in.Registry.Auths # {}
    /\ WarnDefaultRuntime \in Warned
    /\ WarnAuths \in Warned

\* C5 as stated: when the legacy default runtime type is set and the call is
\* accepted, DefaultRuntimeName is default and Runtimes[default] equals the
\* legacy DefaultRuntime in every field.
C5_DefaultIsLegacy ==
    (Accepted /\ in.ContainerdConfig.DefaultRuntime.Type # "") =>
        /\ c.ContainerdConfig.DefaultRuntimeName = RuntimeDefault
        /\ RuntimeDefault \in DOMAIN c.ContainerdConfig.Runtimes
        /\ c.ContainerdConfig.Runtimes[RuntimeDefault] = in.ContainerdConfig.DefaultRuntime

\* C5 as amended: Runtimes[default] equals the legacy DefaultRuntime in every
\* field but SandboxMode, which is podsandbox when the legacy one is empty.
C5_DefaultMigrated ==
    (Accepted /\ in.ContainerdConfig.DefaultRuntime.Type # "") =>
        LET d == in.ContainerdConfig.DefaultRuntime
        IN  /\ c.ContainerdConfig.DefaultRuntimeName = RuntimeDefault
            /\ RuntimeDefault \in DOMAIN c.ContainerdConfig.Runtimes
            /\ c.ContainerdConfig.Runtimes[RuntimeDefault] =
                  [d EXCEPT !.SandboxMode = IF @ = "" THEN ModePodSandbox ELSE @]

\* a first call is accepted whose input named another default handler and
\* had another handler under the key default
C5_Witness ==
    /\ Accepted
    /\ calls = 1
    /\ in.ContainerdConfig.DefaultRuntime.Type = RuntimeLinuxV1
    /\ in.ContainerdConfig.DefaultRuntimeName = "runc"
    /\ RuntimeDefault \in DOMAIN in.ContainerdConfig.Runtimes
    /\ in.ContainerdConfig.Runtimes[RuntimeDefault].Type = RuntimeRuncV2
    /\ c.ContainerdConfig.Runtimes[RuntimeDefault].Type = RuntimeLinuxV1

\* C6: with no legacy default runtime and no untrusted conflict, the call
\* returns the empty-name error when the input DefaultRuntimeName is empty,
\* whatever handlers Runtimes has, and the no-corresponding-runtime error when
\* the name is non-empty and no key of the registry after migration.
C6_DefaultRuntimeNameErrors ==
    (Returned /\ in.ContainerdConfig.DefaultRuntime.Type = ""
              /\ ~UntrustedConflictInput) =>
        LET cc == in.ContainerdConfig
            keys == (DOMAIN cc.Runtimes) \cup
                    (IF cc.UntrustedWorkloadRuntime.Type # ""
                     THEN {RuntimeUntrusted} ELSE {})
        IN  /\ cc.DefaultRuntimeName = "" => err = ErrDefaultRuntimeNameEmpty
            /\ (cc.DefaultRuntimeName # "" /\ cc.DefaultRuntimeName \notin keys)
                  => err = ErrNoDefaultRuntime

\* the empty-name error is returned on an input whose only handler is runc
C6_Witness ==
    /\ Returned
    /\ in.ContainerdConfig.DefaultRuntimeName = ""
    /\ DOMAIN in.ContainerdConfig.Runtimes = {"runc"}
    /\ in.ContainerdConfig.DefaultRuntime.Type = ""
    /\ err = ErrDefaultRuntimeNameEmpty

\* the errors of the passes before the registry checks
RuntimePassErrors ==
    {ErrUntrustedConflict, ErrDefaultRuntimeNameEmpty, ErrNoDefaultRuntime,
     ErrSystemdCgroup, ErrNoPivot, ErrRuntimeEngine, ErrRuntimeRoot,
     ErrAllDevicesAllowed}

C9_Key(e) ==
    CASE e = <<"h", "t", "t", "p", "s", ":", "/", "/", "h">> -> <<"h">>
      [] e = <<"h", "t", "t", "p", ":", "/", "/", "h">> -> <<"h">>
      [] e = <<"h">> -> <<"h">>
      [] e = <<"h", ":", "5">> -> << >>
      [] e = <<"h", "t", "t", "p", "s", ":", "/", "/", "g", ":", "5">> -> <<"g", ":", "5">>
      [] OTHER -> e

C10_Good == <<"3", "0", "s">>

C10_Bad == <<"n", "o", "t", "-", "a", "-", "d", "u", "r", "a", "t", "i", "o", "n">>

\* the errors of the passes before the timeout validations
EarlierErrors ==
    RuntimePassErrors \cup {ErrMirrorsConfigPath, ErrTLSConfigPath, ErrParseRegistryURL}

\* C10: on an input that passes every earlier pass, with each timeout string
\* empty, 30s or not-a-duration: the call is accepted when none is
\* not-a-duration, and otherwise returns the error of the first field, in the
\* order stream idle, image pull progress, drain exec sync, that is.
C10_Timeouts ==
    (Returned /\ err \notin EarlierErrors) =>
        LET ok == {<< >>, C10_Good}
            s == in.StreamIdleTimeout
            i == in.ImagePullProgressTimeout
            d == in.DrainExecSyncIOTimeout
        IN  /\ s = C10_Bad => err = ErrStreamIdleTimeout
            /\ (s \in ok /\ i = C10_Bad) => err = ErrImagePullProgressTimeout
            /\ (s \in ok /\ i \in ok /\ d = C10_Bad) => err = ErrDrainExecSyncIOTimeout
            /\ (s \in ok /\ i \in ok /\ d \in ok) => err = NoError

\* with the image pull progress and the drain exec sync timeouts both
\* malformed and the stream idle timeout 30s, the error names the former
C10_Witness ==
    /\ Returned
    /\ in.StreamIdleTimeout = C10_Good
    /\ in.ImagePullProgressTimeout = C10_Bad
    /\ in.DrainExecSyncIOTimeout = C10_Bad
    /\ err = ErrImagePullProgressTimeout

-----------------------------------------------------------------------------
(* The input of the current call, as the passes meet it *)

\* the registry of handlers the input gives once the two legacy runtimes
\* are inserted
MigratedRuntimes ==
    LET cc == in.ContainerdConfig
        m1 == IF cc.UntrustedWorkloadRuntime.Type # ""
              THEN MapSet(cc.Runtimes, RuntimeUntrusted, cc.UntrustedWorkloadRuntime)
              ELSE cc.Runtimes
    IN  IF cc.DefaultRuntime.Type # ""
        THEN MapSet(m1, RuntimeDefault, cc.DefaultRuntime)
        ELSE m1

\* the name of the default handler the input gives
MigratedDefaultName ==
    IF in.ContainerdConfig.DefaultRuntime.Type # "" THEN RuntimeDefault
    ELSE in.ContainerdConfig.DefaultRuntimeName

\* the type of the handler the input selects as default; "" when it
\* selects none
MigratedDefaultType ==
    IF MigratedDefaultName \in DOMAIN MigratedRuntimes
    THEN MigratedRuntimes[MigratedDefaultName].Type
    ELSE ""

NotLinux(t) == t # RuntimeLinuxV1

EngineMismatch(r) == r.Engine # "" /\ NotLinux(r.Type)

RootMismatch(r) == r.Root # "" /\ NotLinux(r.Type)

\* the errors of a set of violations: each element is <<violated, error>>
ErrorsOf(checks) == {x[2] : x \in {y \in checks : y[1]}}

\* the errors of the first pass of passes that the input violates; no error
\* when it violates none
FirstViolated(passes) ==
    LET violated == {i \in 1..Len(passes) : passes[i] # {}}
    IN  IF violated = {} THEN {NoError}
        ELSE passes[CHOOSE i \in violated : \A j \in violated : i <= j]

\* the violations of the passes that are the same in the claim and in the
\* code: before the handlers, and after them
SelectionPasses ==
    <<ErrorsOf({<<UntrustedConflictInput, ErrUntrustedConflict>>}),
      ErrorsOf({<<MigratedDefaultName = "", ErrDefaultRuntimeNameEmpty>>,
                <<MigratedDefaultName # ""
                     /\ MigratedDefaultName \notin DOMAIN MigratedRuntimes,
                  ErrNoDefaultRuntime>>})>>

RegistryPasses ==
    <<ErrorsOf({<<in.Registry.ConfigPath # << >> /\ DOMAIN in.Registry.Mirrors # {},
                  ErrMirrorsConfigPath>>}),
      ErrorsOf({<<in.Registry.ConfigPath # << >>
                     /\ \E k \in DOMAIN in.Registry.Configs :
                            in.Registry.Configs[k].TLS # << >>,
                  ErrTLSConfigPath>>}),
      ErrorsOf({<<\E e \in DOMAIN in.Registry.Auths : e = <<"1", ":", "5">>,
                  ErrParseRegistryURL>>})>>

\* the only duration strings of the model that are no durations
Malformed(s) ==
    s \in {<<"n", "o", "t", "-", "a", "-", "d", "u", "r", "a", "t", "i", "o", "n">>,
           <<"3", "0">>}

\* C11 as stated: the error returned is one of the earliest pass, in the
\* documented order, that the input violates; the type restrictions of
\* systemd_cgroup, no_pivot, runtime_engine and runtime_root are one pass, and
\* the device-flag rule is the next.
C11_DocumentedOrder ==
    Returned =>
        err \in FirstViolated(
            SelectionPasses
            \o <<ErrorsOf({<<in.SystemdCgroup /\ NotLinux(MigratedDefaultType),
                             ErrSystemdCgroup>>,
                           <<in.ContainerdConfig.NoPivot /\ NotLinux(MigratedDefaultType),
                             ErrNoPivot>>,
                           <<\E k \in DOMAIN MigratedRuntimes :
                                EngineMismatch(MigratedRuntimes[k]),
                             ErrRuntimeEngine>>,
                           <<\E k \in DOMAIN MigratedRuntimes :
                                RootMismatch(MigratedRuntimes[k]),
                             ErrRuntimeRoot>>}),
                  ErrorsOf({<<\E k \in DOMAIN MigratedRuntimes :
                                ~DeviceFlagsOk(MigratedRuntimes[k]),
                             ErrAllDevicesAllowed>>})>>
            \o RegistryPasses
            \o <<ErrorsOf({<<Malformed(in.StreamIdleTimeout), ErrStreamIdleTimeout>>,
                           <<Malformed(in.ImagePullProgressTimeout),
                             ErrImagePullProgressTimeout>>,
                           <<Malformed(in.DrainExecSyncIOTimeout),
                             ErrDrainExecSyncIOTimeout>>})>>)

\* the first rule a handler breaks, in the order engine, root, device flags
C11_HandlerError(r) ==
    IF EngineMismatch(r) THEN ErrRuntimeEngine
    ELSE IF RootMismatch(r) THEN ErrRuntimeRoot
    ELSE IF ~DeviceFlagsOk(r) THEN ErrAllDevicesAllowed
    ELSE NoError

\* the passes in the order of the code, each with the errors the input
\* warrants in it: untrusted conflict, default-handler selection,
\* systemd_cgroup, no_pivot, handlers, mirrors/config_path,
\* configs.tls/config_path, auths, and the three timeouts.  The handlers are
\* one pass, with the first rule broken by each handler that breaks a rule.
CodePasses ==
    SelectionPasses
    \o <<ErrorsOf({<<in.SystemdCgroup /\ NotLinux(MigratedDefaultType),
                     ErrSystemdCgroup>>}),
          ErrorsOf({<<in.ContainerdConfig.NoPivot /\ NotLinux(MigratedDefaultType),
                     ErrNoPivot>>}),
          {C11_HandlerError(MigratedRuntimes[k]) :
              k \in DOMAIN MigratedRuntimes} \ {NoError}>>
    \o RegistryPasses
    \o <<ErrorsOf({<<Malformed(in.StreamIdleTimeout), ErrStreamIdleTimeout>>}),
          ErrorsOf({<<Malformed(in.ImagePullProgressTimeout),
                     ErrImagePullProgressTimeout>>}),
          ErrorsOf({<<Malformed(in.DrainExecSyncIOTimeout),
                     ErrDrainExecSyncIOTimeout>>})>>

\* C11 as amended: the error returned is the one of the earliest violated
\* pass in the order untrusted conflict, default-handler selection,
\* systemd_cgroup, no_pivot, handlers, mirrors/config_path,
\* configs.tls/config_path, auths, stream idle timeout, image pull progress
\* timeout, drain exec sync timeout.  The handlers are one pass: the engine,
\* root and device-flag rules are checked handler by handler, and the error is
\* the first rule broken by one of the handlers that break a rule.
C11_PassOrder == Returned => err \in FirstViolated(CodePasses)

\* a call returns on an input with two handlers, one with an engine of the
\* wrong type and one that breaks the device-flag rule, with the error of the
\* handler the loop met first
C11_Witness ==
    /\ Returned
    /\ DOMAIN in.ContainerdConfig.Runtimes = {"runc", "kata"}
    /\ EngineMismatch(in.ContainerdConfig.Runtimes["runc"])
    /\ ~DeviceFlagsOk(in.ContainerdConfig.Runtimes["kata"])
    /\ err = ErrAllDevicesAllowed

\* the input of the current call has no deprecated migration input
Canonical ==
    /\ in.ContainerdConfig.UntrustedWorkloadRuntime.Type = ""
    /\ in.ContainerdConfig.DefaultRuntime.Type = ""
    /\ DOMAIN in.Registry.Auths = {}

\* C12: a call on an instance that was accepted once and has an empty legacy
\* untrusted type, an empty legacy default type and no Auths changes no field
\* of the instance at any step, and returns nil.
C12_CanonicalIdempotent ==
    (calls > 1 /\ Canonical) =>
        /\ c = in
        /\ Returned => err = NoError

\* a second call is accepted on an instance with mirrors and no legacy
\* runtime, in which the first call has defaulted a sandbox mode and left
\* another as it was
C12_Witness ==
    /\ Accepted
    /\ calls = 2
    /\ Canonical
    /\ \E k \in DOMAIN c.ContainerdConfig.Runtimes :
          c.ContainerdConfig.Runtimes[k].SandboxMode = ModePodSandbox
    /\ \E k \in DOMAIN c.ContainerdConfig.Runtimes :
          c.ContainerdConfig.Runtimes[k].SandboxMode = ModeShim

\* r, or r with its empty sandbox mode defaulted
DefaultedOrNot(r) ==
    IF r.SandboxMode = "" THEN {r, [r EXCEPT !.SandboxMode = ModePodSandbox]}
    ELSE {r}

\* the errors of the passes after the loop over the handlers
AfterHandlersErrors ==
    {ErrMirrorsConfigPath, ErrTLSConfigPath, ErrParseRegistryURL,
     ErrStreamIdleTimeout, ErrImagePullProgressTimeout, ErrDrainExecSyncIOTimeout}

\* what a failed call leaves in the configuration
C13_MutationsRemain ==
    (Returned /\ err \notin {NoError, ErrUntrustedConflict}) =>
        LET cc == c.ContainerdConfig
            u == in.ContainerdConfig.UntrustedWorkloadRuntime
            d == in.ContainerdConfig.DefaultRuntime
        IN  /\ u.Type # "" =>
                  /\ RuntimeUntrusted \in DOMAIN cc.Runtimes
                  /\ cc.Runtimes[RuntimeUntrusted] \in DefaultedOrNot(u)
            /\ d.Type # "" =>
                  /\ cc.DefaultRuntimeName = RuntimeDefault
                  /\ RuntimeDefault \in DOMAIN cc.Runtimes
                  /\ cc.Runtimes[RuntimeDefault] \in DefaultedOrNot(d)
            /\ err \in AfterHandlersErrors =>
                  \A k \in DOMAIN cc.Runtimes :
                      /\ cc.Runtimes[k].SandboxMode # ""
                      /\ MigratedRuntimes[k].SandboxMode = ""
                            => cc.Runtimes[k].SandboxMode = ModePodSandbox
            /\ err \in {ErrStreamIdleTimeout, ErrImagePullProgressTimeout,
                         ErrDrainExecSyncIOTimeout} =>
                  \A e \in DOMAIN in.Registry.Auths :
                      /\ C9_Key(e) \in DOMAIN c.Registry.Configs
                      /\ \E f \in DOMAIN in.Registry.Auths :
                            /\ C9_Key(f) = C9_Key(e)
                            /\ c.Registry.Configs[C9_Key(e)].Auth
                                  = <<in.Registry.Auths[f]>>

\* C13: a call that fails after the legacy migrations leaves in the
\* configuration the handler inserted under untrusted, the handler written
\* under default, the rewritten DefaultRuntimeName and, when it fails after
\* the loop over the handlers, every defaulted sandbox mode; when it fails in
\* the timeout validations the migrated auths are in Configs; and the step
\* that returns an error changes no field, so that whatever was written
\* before it, a sandbox mode defaulted earlier in the loop included, remains.
C13_NoRollback ==
    /\ []C13_MutationsRemain
    /\ [][(pc' = "done" /\ err' # NoError) => c' = c]_vars

\* a first call fails on the stream idle timeout after it has migrated the
\* legacy untrusted runtime, the legacy default runtime and an entry of
\* Auths, and defaulted the sandbox modes
C13_Witness ==
    /\ Returned
    /\ calls = 1
    /\ err = ErrStreamIdleTimeout
    /\ in.ContainerdConfig.UntrustedWorkloadRuntime.Type # ""
    /\ in.ContainerdConfig.DefaultRuntime.Type # ""
    /\ in.ContainerdConfig.DefaultRuntimeName = "runc"
    /\ DOMAIN in.Registry.Auths # {}
    /\ c # in
    /\ c.ContainerdConfig.Runtimes[RuntimeUntrusted].SandboxMode = ModePodSandbox
    /\ <<"h">> \in DOMAIN c.Registry.Configs

\* the four documented kinds of rejection
ConflictErrors ==
    {ErrUntrustedConflict, ErrMirrorsConfigPath, ErrTLSConfigPath, ErrAllDevicesAllowed}

MissingReferenceErrors == {ErrDefaultRuntimeNameEmpty, ErrNoDefaultRuntime}

TypeRestrictionErrors == {ErrSystemdCgroup, ErrNoPivot, ErrRuntimeEngine, ErrRuntimeRoot}

MalformedDurationErrors ==
    {ErrStreamIdleTimeout, ErrImagePullProgressTimeout, ErrDrainExecSyncIOTimeout}

DocumentedErrors ==
    ConflictErrors \cup MissingReferenceErrors \cup TypeRestrictionErrors
        \cup MalformedDurationErrors

\* every error the input warrants in some pass
Warranted == UNION {CodePasses[i] : i \in 1..Len(CodePasses)}

\* C14 as stated: every rejection is a conflict, a missing reference, a type
\* restriction or a malformed duration, and an input that warrants none of
\* these, whatever deprecated fields it uses and whatever the endpoints of
\* its Auths, is accepted.
C14_FourKinds ==
    Returned =>
        /\ err \in DocumentedErrors \cup {NoError}
        /\ Warranted \cap DocumentedErrors = {} => err = NoError

\* C14 as amended: every rejection is a conflict, a missing reference, a type
\* restriction, a malformed duration or an endpoint of Auths that does not
\* parse as a URL, and an input that warrants none of these, whatever
\* deprecated fields it uses, is accepted.
C14_FiveKinds ==
    Returned =>
        /\ err \in DocumentedErrors \cup {ErrParseRegistryURL, NoError}
        /\ Warranted = {} => err = NoError

\* a first call is accepted on an input that uses the legacy untrusted
\* runtime, the legacy default runtime, mirrors, configs.tls and auths
C14_Witness ==
    /\ Accepted
    /\ calls = 1
    /\ in.ContainerdConfig.UntrustedWorkloadRuntime.Type # ""
    /\ in.ContainerdConfig.DefaultRuntime.Type # ""
    /\ DOMAIN in.Registry.Mirrors # {}
    /\ \E k \in DOMAIN in.Registry.Configs : in.Registry.Configs[k].TLS # << >>
    /\ DOMAIN in.Registry.Auths # {}
    /\ Warned = {WarnUntrusted, WarnDefaultRuntime, WarnMirrors, WarnTLS, WarnAuths}

\* the errors of the passes before the systemd_cgroup and no_pivot checks
SelectionErrors ==
    {ErrUntrustedConflict, ErrDefaultRuntimeNameEmpty, ErrNoDefaultRuntime}

\* C15: a call that passes the default-handler selection returns the
\* systemd_cgroup error when SystemdCgroup is set, and otherwise the no_pivot
\* error when NoPivot is set, if the type of Runtimes[DefaultRuntimeName]
\* after the legacy migrations is not io.containerd.runtime.v1.linux; and no
\* call returns either error when that type is io.containerd.runtime.v1.linux,
\* whatever the types of the other handlers.
C15_DefaultHandlerType ==
    (Returned /\ err \notin SelectionErrors) =>
        LET flagged == in.SystemdCgroup \/ in.ContainerdConfig.NoPivot
        IN  /\ (flagged /\ MigratedDefaultType # RuntimeLinuxV1) =>
                  err = IF in.SystemdCgroup THEN ErrSystemdCgroup ELSE ErrNoPivot
            /\ err \in {ErrSystemdCgroup, ErrNoPivot} =>
                  flagged /\ MigratedDefaultType # RuntimeLinuxV1

\* the systemd_cgroup error is returned on an input whose DefaultRuntimeName
\* names a handler of type io.containerd.runtime.v1.linux, and whose legacy
\* default runtime, which replaces it as the default, has another type
C15_Witness ==
    /\ Returned
    /\ err = ErrSystemdCgroup
    /\ in.ContainerdConfig.DefaultRuntimeName = "runc"
    /\ "runc" \in DOMAIN in.ContainerdConfig.Runtimes
    /\ in.ContainerdConfig.Runtimes["runc"].Type = RuntimeLinuxV1
    /\ in.ContainerdConfig.DefaultRuntime.Type = RuntimeRuncV2

\* the errors of the passes before the loop over the handlers
BeforeHandlersErrors == SelectionErrors \cup {ErrSystemdCgroup, ErrNoPivot}

\* after an accepted call every handler with an Engine or a Root has the
\* type io.containerd.runtime.v1.linux
C16_AcceptedHandlers ==
    Accepted =>
        \A k \in DOMAIN c.ContainerdConfig.Runtimes :
            LET r == c.ContainerdConfig.Runtimes[k]
            IN  (r.Engine # "" \/ r.Root # "") => r.Type = RuntimeLinuxV1

\* C16 as stated: a call that reaches the loop over the handlers, on an
\* input with a handler after migration whose Engine or Root is set and whose
\* type is not io.containerd.runtime.v1.linux, returns the runtime_engine or
\* the runtime_root error; and C16_AcceptedHandlers.
C16_TypeMismatchError ==
    /\ (Returned /\ err \notin BeforeHandlersErrors
           /\ \E k \in DOMAIN MigratedRuntimes :
                  EngineMismatch(MigratedRuntimes[k]) \/ RootMismatch(MigratedRuntimes[k]))
          => err \in {ErrRuntimeEngine, ErrRuntimeRoot}
    /\ C16_AcceptedHandlers

\* C16 as amended: such a call is rejected, with the runtime_engine or the
\* runtime_root error, or with the device-flag error when another handler,
\* with no Engine or Root of the wrong type, breaks the device-flag rule; and
\* C16_AcceptedHandlers.
C16_TypeMismatchRejected ==
    /\ (Returned /\ err \notin BeforeHandlersErrors
           /\ \E k \in DOMAIN MigratedRuntimes :
                  EngineMismatch(MigratedRuntimes[k]) \/ RootMismatch(MigratedRuntimes[k]))
          => \/ err \in {ErrRuntimeEngine, ErrRuntimeRoot}
             \/ /\ err = ErrAllDevicesAllowed
                /\ \E k \in DOMAIN MigratedRuntimes :
                      /\ ~EngineMismatch(MigratedRuntimes[k])
                      /\ ~RootMismatch(MigratedRuntimes[k])
                      /\ ~DeviceFlagsOk(MigratedRuntimes[k])
    /\ C16_AcceptedHandlers

\* the runtime_root error is returned for the handler that the migration of
\* the legacy untrusted runtime inserted
C16_Witness ==
    /\ Returned
    /\ err = ErrRuntimeRoot
    /\ RuntimeUntrusted \notin DOMAIN in.ContainerdConfig.Runtimes
    /\ RootMismatch(in.ContainerdConfig.UntrustedWorkloadRuntime)
    /\ \A k \in DOMAIN in.ContainerdConfig.Runtimes :
          ~RootMismatch(in.ContainerdConfig.Runtimes[k])

\* C17: after an accepted call the handlers of Runtimes are those of the
\* input after the legacy migrations, each with a non-empty SandboxMode:
\* podsandbox when its mode was empty, its own mode otherwise, and every other
\* field as it was.
C17_SandboxModeDefaulted ==
    Accepted =>
        /\ DOMAIN c.ContainerdConfig.Runtimes = DOMAIN MigratedRuntimes
        /\ \A k \in DOMAIN MigratedRuntimes :
              LET r == MigratedRuntimes[k]
                  mode == c.ContainerdConfig.Runtimes[k].SandboxMode
              IN  /\ mode # ""
                  /\ r.SandboxMode = "" => mode = ModePodSandbox
                  /\ r.SandboxMode # "" => mode = r.SandboxMode
                  /\ [c.ContainerdConfig.Runtimes[k] EXCEPT !.SandboxMode = ""]
                        = [r EXCEPT !.SandboxMode = ""]

\* a first call is accepted on an input with a handler of mode shim and a
\* handler with an Engine and no mode
C17_Witness ==
    /\ Accepted
    /\ calls = 1
    /\ \E k \in DOMAIN in.ContainerdConfig.Runtimes :
          /\ in.ContainerdConfig.Runtimes[k].SandboxMode = ""
          /\ in.ContainerdConfig.Runtimes[k].Engine # ""
          /\ c.ContainerdConfig.Runtimes[k].SandboxMode = ModePodSandbox
    /\ \E k \in DOMAIN in.ContainerdConfig.Runtimes :
          /\ in.ContainerdConfig.Runtimes[k].SandboxMode = ModeShim
          /\ c.ContainerdConfig.Runtimes[k].SandboxMode = ModeShim

\* C18: after an accepted call the SandboxMode of every handler of Runtimes
\* is podsandbox or shim.
C18_ClosedEnumeration ==
    Accepted =>
        \A k \in DOMAIN c.ContainerdConfig.Runtimes :
            c.ContainerdConfig.Runtimes[k].SandboxMode \in {ModePodSandbox, ModeShim}

C19_Negative == <<"-", "3", "0", "s">>

\* the duration strings of the model that are durations, signed or not
C19_WellFormed == {<<"3", "0", "s">>, <<"1", "h", "3", "0", "m">>, C19_Negative}

\* C19 as stated: on an input that passes every earlier pass, a timeout
\* string -30s is rejected with the error of its field, when the fields
\* before it are empty or non-negative durations.
C19_NegativeRejected ==
    (Returned /\ err \notin EarlierErrors) =>
        LET ok == {<< >>, <<"3", "0", "s">>, <<"1", "h", "3", "0", "m">>}
            s == in.StreamIdleTimeout
            i == in.ImagePullProgressTimeout
            d == in.DrainExecSyncIOTimeout
        IN  /\ s = C19_Negative => err = ErrStreamIdleTimeout
            /\ (s \in ok /\ i = C19_Negative) => err = ErrImagePullProgressTimeout
            /\ (s \in ok /\ i \in ok /\ d = C19_Negative)
                  => err = ErrDrainExecSyncIOTimeout

\* C19 as amended: a non-empty timeout string is accepted when it is a
\* duration of the unit-suffixed grammar with an optional sign, -30s
\* included: on an input that passes every earlier pass the call is accepted
\* when each field is empty or such a duration, and an error names a field
\* only when the field is none.
C19_SignedAccepted ==
    (Returned /\ err \notin EarlierErrors) =>
        LET ok == C19_WellFormed \cup {<< >>}
            s == in.StreamIdleTimeout
            i == in.ImagePullProgressTimeout
            d == in.DrainExecSyncIOTimeout
        IN  /\ (s \in ok /\ i \in ok /\ d \in ok) => err = NoError
            /\ err = ErrStreamIdleTimeout => s \notin ok
            /\ err = ErrImagePullProgressTimeout => i \notin ok
            /\ err = ErrDrainExecSyncIOTimeout => d \notin ok

\* a call is accepted with -30s in each of the three fields
C19_Witness ==
    /\ Accepted
    /\ in.StreamIdleTimeout = C19_Negative
    /\ in.ImagePullProgressTimeout = C19_Negative
    /\ in.DrainExecSyncIOTimeout = C19_Negative

\* the endpoints of the input's Auths with the key k
C20_Entries(k) == {e \in DOMAIN in.Registry.Auths : C9_Key(e) = k}

\* the entries of Auths are folded into Configs: the keys of Configs are
\* those of the input and those of the entries of Auths, the Auth under the
\* key of an entry is the auth of an entry with that key, and everything else
\* in Configs and in the registry settings is as it was
C20_Folded ==
    LET old == in.Registry.Configs
        new == c.Registry.Configs
    IN  /\ DOMAIN new = (DOMAIN old) \cup {C9_Key(e) : e \in DOMAIN in.Registry.Auths}
        /\ \A k \in DOMAIN new :
              /\ new[k].TLS = (IF k \in DOMAIN old THEN old[k].TLS ELSE << >>)
              /\ IF C20_Entries(k) = {}
                 THEN new[k].Auth = old[k].Auth
                 ELSE \E e \in C20_Entries(k) : new[k].Auth = <<in.Registry.Auths[e]>>
        /\ ~c.Registry.ConfigsIsNil
        /\ c.Registry.ConfigPath = in.Registry.ConfigPath
        /\ c.Registry.Mirrors = in.Registry.Mirrors
        /\ c.Registry.Auths = in.Registry.Auths

\* C20: on an input with a ConfigPath, no mirrors, no TLS in Configs and
\* Auths whose endpoints all parse, a call that passes the runtime passes and
\* the timeout validations is accepted; and an accepted call, with a
\* ConfigPath or with none, leaves the entries of Auths folded into Configs.
C20_AuthsWithConfigPath ==
    /\ (/\ Returned
        /\ err \notin RuntimePassErrors \cup MalformedDurationErrors
        /\ in.Registry.ConfigPath # << >>
        /\ DOMAIN in.Registry.Mirrors = {}
        /\ \A k \in DOMAIN in.Registry.Configs : in.Registry.Configs[k].TLS = << >>
        /\ DOMAIN in.Registry.Auths # {}
        /\ <<"1", ":", "5">> \notin DOMAIN in.Registry.Auths)
          => err = NoError
    /\ (Accepted /\ calls = 1 /\ DOMAIN in.Registry.Auths # {}) => C20_Folded

\* a first call is accepted on an input with a ConfigPath, whose entry
\* https://h of Auths replaces the Auth of the entry h of Configs
C20_Witness ==
    /\ Accepted
    /\ calls = 1
    /\ in.Registry.ConfigPath # << >>
    /\ <<"h", "t", "t", "p", "s", ":", "/", "/", "h">> \in DOMAIN in.Registry.Auths
    /\ <<"h">> \in DOMAIN in.Registry.Configs
    /\ in.Registry.Configs[<<"h">>].Auth = <<AuthToken>>
    /\ c.Registry.Configs[<<"h">>].Auth = <<AuthUser>>

\* no entry of Configs is removed, and an entry whose key no entry of Auths
\* has is as it was
C21_OthersUnchanged ==
    \A k \in DOMAIN in.Registry.Configs :
        /\ k \in DOMAIN c.Registry.Configs
        /\ C20_Entries(k) = {} => c.Registry.Configs[k] = in.Registry.Configs[k]
        /\ c.Registry.Configs[k].TLS = in.Registry.Configs[k].TLS

\* a step of a call that changes Configs migrates one entry of Auths: it
\* writes the auth of the entry under the key of the entry, keeps the TLS an
\* entry under that key had, and leaves the other entries of Configs as they
\* were
C21_MergeStep ==
    (pc # "done" /\ c'.Registry.Configs # c.Registry.Configs) =>
        \E e \in DOMAIN c.Registry.Auths :
            LET k == C9_Key(e)
                old == c.Registry.Configs
                new == c'.Registry.Configs
            IN  /\ DOMAIN new = (DOMAIN old) \cup {k}
                /\ new[k].Auth = <<c.Registry.Auths[e]>>
                /\ new[k].TLS = (IF k \in DOMAIN old THEN old[k].TLS ELSE << >>)
                /\ \A j \in (DOMAIN old) \ {k} : new[j] = old[j]

\* C21: the migration of an entry of Auths onto a key of Configs replaces
\* the Auth under that key by the auth of the entry and keeps the TLS; the
\* entries of Configs that are the target of no entry of Auths are unchanged,
\* and no entry of Configs is removed.
C21_AuthMergeFrame ==
    /\ []C21_OthersUnchanged
    /\ [][C21_MergeStep]_vars

\* a first call is accepted that has migrated https://h onto the entry h of
\* Configs, which had an Auth and TLS, and has left the entry g as it was
C21_Witness ==
    /\ Accepted
    /\ calls = 1
    /\ DOMAIN in.Registry.Auths = {<<"h", "t", "t", "p", "s", ":", "/", "/", "h">>}
    /\ DOMAIN in.Registry.Configs = {HostH, HostG}
    /\ in.Registry.Configs[HostH] = [Auth |-> <<AuthToken>>, TLS |-> <<TLSInsecure>>]
    /\ c.Registry.Configs[HostH] = [Auth |-> <<AuthUser>>, TLS |-> <<TLSInsecure>>]
    /\ c.Registry.Configs[HostG] = in.Registry.Configs[HostG]

\* the number of times the current call has written the warning w
Count(w) == Cardinality({i \in 1..Len(log) : log[i] = w})

\* C22: a call writes the auths warning at most once; it has written none
\* before the end of the auths migration, and a call that has returned has
\* written it exactly when Auths is non-empty and the call went past the
\* auths migration, whatever the number of entries.
C22_AuthsWarnedOnce ==
    /\ Count(WarnAuths) <= 1
    /\ pc \notin {"timeouts", "done"} => Count(WarnAuths) = 0
    /\ Returned =>
          (Count(WarnAuths) = 1) =
             (/\ DOMAIN in.Registry.Auths # {}
              /\ err \in MalformedDurationErrors \cup {NoError})

\* a call that has migrated two entries of Auths is accepted with one auths
\* warning
C22_Witness ==
    /\ Accepted
    /\ Cardinality(DOMAIN in.Registry.Auths) = 2
    /\ Count(WarnAuths) = 1

\* the input uses no deprecated field that has a warning, systemd_cgroup
\* apart
C23_NothingElseDeprecated ==
    /\ in.ContainerdConfig.UntrustedWorkloadRuntime.Type = ""
    /\ in.ContainerdConfig.DefaultRuntime.Type = ""
    /\ \A k \in DOMAIN in.ContainerdConfig.Runtimes :
          /\ in.ContainerdConfig.Runtimes[k].Engine = ""
          /\ in.ContainerdConfig.Runtimes[k].Root = ""
    /\ DOMAIN in.Registry.Mirrors = {}
    /\ DOMAIN in.Registry.Configs = {}
    /\ DOMAIN in.Registry.Auths = {}

\* C23: a call that passes the default-handler selection has written the
\* systemd_cgroup warning, once, exactly when SystemdCgroup is set and the
\* type of the default handler is io.containerd.runtime.v1.linux, and it then
\* returns neither the systemd_cgroup nor the no_pivot error; a call that
\* returns one of these two errors has written no systemd_cgroup warning; and
\* with NoPivot set, SystemdCgroup unset and no other deprecated field, a
\* call is accepted with no warning at all.
C23_FlagWarnings ==
    (Returned /\ err \notin SelectionErrors) =>
        LET valid == in.SystemdCgroup /\ MigratedDefaultType = RuntimeLinuxV1
        IN  /\ Count(WarnSystemdCgroup) = (IF valid THEN 1 ELSE 0)
            /\ valid => err \notin {ErrSystemdCgroup, ErrNoPivot}
            /\ err \in {ErrSystemdCgroup, ErrNoPivot} => WarnSystemdCgroup \notin Warned
            /\ (/\ in.ContainerdConfig.NoPivot
                /\ ~in.SystemdCgroup
                /\ MigratedDefaultType = RuntimeLinuxV1
                /\ C23_NothingElseDeprecated)
                  => err = NoError /\ log = << >>

\* a call is accepted with SystemdCgroup and NoPivot both set, and the
\* systemd_cgroup warning is the only warning it has written
C23_Witness ==
    /\ Accepted
    /\ in.SystemdCgroup
    /\ in.ContainerdConfig.NoPivot
    /\ C23_NothingElseDeprecated
    /\ log = <<WarnSystemdCgroup>>

\* the current call is the second of two first calls on equal configurations
SecondRun == calls = 1 /\ first # << >>

\* C24: of two calls on equal configurations, either both are accepted or
\* both are rejected, whatever the order in which each visits the handlers
\* and the entries of Auths.
C24_SameDecision ==
    (SecondRun /\ Returned) => (err = NoError) = (first[1].err = NoError)

\* two calls on one input, with a handler whose engine has the wrong type and
\* a handler that breaks the device-flag rule, are rejected with different
\* errors
C24_Witness ==
    /\ SecondRun
    /\ Returned
    /\ DOMAIN in.ContainerdConfig.Runtimes = {"runc", "kata"}
    /\ first[1].err = ErrRuntimeEngine
    /\ err = ErrAllDevicesAllowed

\* C25: two accepted calls on equal configurations leave equal
\* configurations.
C25_SameResult ==
    (SecondRun /\ Accepted /\ first[1].err = NoError) => c = first[1].c

\* what a call leaves alone: every field but Runtimes, DefaultRuntimeName
\* and Configs
FrameOf(cfg) ==
    [cfg EXCEPT !.ContainerdConfig.Runtimes = << >>,
                !.ContainerdConfig.RuntimesIsNil = FALSE,
                !.ContainerdConfig.DefaultRuntimeName = "",
                !.Registry.Configs = << >>,
                !.Registry.ConfigsIsNil = FALSE]

\* C26: at every point of a call, and after it, accepted or rejected, every
\* field but Runtimes, DefaultRuntimeName and Configs has the value it had
\* when the call began: DefaultRuntime, UntrustedWorkloadRuntime, Auths,
\* Mirrors, ConfigPath, SystemdCgroup, NoPivot and the three timeout strings
\* among them.
C26_Frame ==
    /\ FrameOf(c) = FrameOf(in)
    /\ c.ContainerdConfig.DefaultRuntime = in.ContainerdConfig.DefaultRuntime
    /\ c.ContainerdConfig.UntrustedWorkloadRuntime
          = in.ContainerdConfig.UntrustedWorkloadRuntime
    /\ c.Registry.Auths = in.Registry.Auths
    /\ c.Registry.Mirrors = in.Registry.Mirrors

\* a first call is accepted that has migrated the legacy untrusted runtime,
\* the legacy default runtime and an entry of Auths, on an input with mirrors
C26_Witness ==
    /\ Accepted
    /\ calls = 1
    /\ in.ContainerdConfig.UntrustedWorkloadRuntime.Type # ""
    /\ in.ContainerdConfig.DefaultRuntime.Type # ""
    /\ DOMAIN in.Registry.Auths # {}
    /\ DOMAIN in.Registry.Mirrors # {}
    /\ c.ContainerdConfig.DefaultRuntimeName # in.ContainerdConfig.DefaultRuntimeName
    /\ c.ContainerdConfig.Runtimes # in.ContainerdConfig.Runtimes
    /\ c.Registry.Configs # in.Registry.Configs

\* C27: a call that returns the conflicting-definitions error leaves the
\* whole configuration as it was given.
C27_ConflictChangesNothing ==
    (Returned /\ err = ErrUntrustedConflict) => c = in

\* a first call returns the conflict error on an input with a legacy default
\* runtime, another DefaultRuntimeName, no handler under default and a
\* handler with no sandbox mode
C27_Witness ==
    /\ Returned
    /\ calls = 1
    /\ err = ErrUntrustedConflict
    /\ in.ContainerdConfig.DefaultRuntime.Type # ""
    /\ in.ContainerdConfig.DefaultRuntimeName = "runc"
    /\ RuntimeDefault \notin DOMAIN in.ContainerdConfig.Runtimes
    /\ in.ContainerdConfig.Runtimes[RuntimeUntrusted].SandboxMode = ""

\* C28: at every point of a call, and after it, the keys of Runtimes are
\* those of the input and at most untrusted and default beside them;
\* untrusted is added only when the legacy untrusted type is set, default
\* only when the legacy default type is set; and a handler of the input is as
\* it was but for its SandboxMode, unless it is the one under default and the
\* legacy default type is set.
C28_RegistryMonotone ==
    LET old == in.ContainerdConfig.Runtimes
        new == c.ContainerdConfig.Runtimes
        added == (DOMAIN new) \ (DOMAIN old)
    IN  /\ DOMAIN old \subseteq DOMAIN new
        /\ added \subseteq {RuntimeUntrusted, RuntimeDefault}
        /\ RuntimeUntrusted \in added =>
              in.ContainerdConfig.UntrustedWorkloadRuntime.Type # ""
        /\ RuntimeDefault \in added => in.ContainerdConfig.DefaultRuntime.Type # ""
        /\ \A k \in DOMAIN old :
              (k # RuntimeDefault \/ in.ContainerdConfig.DefaultRuntime.Type = "") =>
                  [new[k] EXCEPT !.SandboxMode = ""] = [old[k] EXCEPT !.SandboxMode = ""]

\* a first call is accepted that has added untrusted, overwritten the
\* handler under default and defaulted the sandbox mode of the handler runc
C28_Witness ==
    /\ Accepted
    /\ calls = 1
    /\ DOMAIN in.ContainerdConfig.Runtimes = {RuntimeDefault, "runc"}
    /\ DOMAIN c.ContainerdConfig.Runtimes = {RuntimeDefault, "runc", RuntimeUntrusted}
    /\ c.ContainerdConfig.Runtimes[RuntimeDefault].Type
          # in.ContainerdConfig.Runtimes[RuntimeDefault].Type
    /\ c.ContainerdConfig.Runtimes["runc"]
          = [in.ContainerdConfig.Runtimes["runc"] EXCEPT !.SandboxMode = ModePodSandbox]

=============================================================================
